---- MODULE Spec2Model ----
(***************************************************************************)
(* Model of the multi-agent job-application chat of                        *)
(* 09_5_sk_multi_agent_job_application_prep.ipynb: the roster, the         *)
(* selection prompt with its result parser, the termination strategy, the  *)
(* chat-execution cell, and the two tool functions of the agents.          *)
(*                                                                         *)
(* The notebook configures and calls the group chat; the turn loop itself  *)
(* (AgentGroupChat.invoke) is a framework call whose body is not part of   *)
(* the repository's sources.  Its steps are modelled after section 4.1 of  *)
(* the specification.  Everything the notebook defines is modelled from    *)
(* the notebook.                                                           *)
(***************************************************************************)
EXTENDS Integers, Sequences, FiniteSets, TLC

(***************************************************************************)
(* Semantic Kernel configuration cell                                      *)
(***************************************************************************)
WEB_JOB_RESEARCH_AGENT_NAME == "Web-Job-Research-Agent"
RESUME_COPYWRITER_AGENT_NAME == "Resume-Copywriter-Agent"
RESUME_REVIEWER_AGENT_NAME == "Resume-Reviewer-Agent"
INTERVIEW_PREPARATION_AGENT_NAME == "Interview-Preparation-Agent"

RESUME_REVIEW_COMPLETE_KEYWORD == "RESUME_REVIEW_COMPLETE"
TERMINATION_KEYWORD == "PROCESS_COMPLETE"
PROCESS_COMPLETE == "COMPLETE"

MAXIMUM_CHAT_ITERATIONS == 12

(***************************************************************************)
(* Data sources configuration cell                                         *)
(***************************************************************************)
JOB_POSTING_MAX_LENGTH == 8000

(***************************************************************************)
(* Bounds of the model                                                     *)
(***************************************************************************)
\* how many times in one run the selection function comes back with no value
MaxNoValue == 1

\* the largest max_turns of a scenario run
MaxScenarioTurns == 5

(***************************************************************************)
(* Values                                                                  *)
(***************************************************************************)
\* Python's None
None == "None"

\* result.value of a selection that produced no value (result.value is None):
\* a value is the one-element sequence << name >>, no value the empty one
NoValue == << >>

USER == "user"

\* what a message says, as far as any rule of the notebook can tell: free
\* text, or text holding one of the keywords
Contents == {"text", RESUME_REVIEW_COMPLETE_KEYWORD}

Message(role, name, content) == [role |-> role, name |-> name, content |-> content]

\* the roster handed to AgentGroupChat, in its order
agents ==
    << WEB_JOB_RESEARCH_AGENT_NAME, RESUME_COPYWRITER_AGENT_NAME,
       RESUME_REVIEWER_AGENT_NAME, INTERVIEW_PREPARATION_AGENT_NAME >>

AgentNames == { agents[i] : i \in 1..Len(agents) }

\* the reviewer taken for the final agent
final_agent_is_reviewer == RESUME_REVIEWER_AGENT_NAME

\* final_agent=interview_preparer_agent
final_agent == INTERVIEW_PREPARATION_AGENT_NAME

\* maximum_iterations=MAXIMUM_CHAT_ITERATIONS
maximum_iterations_plus_one == MAXIMUM_CHAT_ITERATIONS + 1

maximum_iterations == MAXIMUM_CHAT_ITERATIONS

\* conversation_messages of the chat-execution cell: one user message
conversation_messages == << Message("user", USER, "text") >>

\* the roles the cell keeps when it builds chat_history
KeptRoles == {"system", "developer", "assistant", "user"}

chat_history == SelectSeq(conversation_messages, LAMBDA m : m.role \in KeptRoles)

VARIABLES
    transcript,         \* the chat's history, oldest message first
    turn_count,         \* completed turns of the run
    last_speaker,       \* the agent of the last completed turn, or None
    terminated,         \* the run has stopped normally
    termination_reason, \* why, once terminated
    error,              \* the failure that halted the run, or None
    pc,                 \* where the cell / the loop stands
    selection_result,   \* the value of the selection function's result
    selected,           \* the agent chosen for the turn in progress
    no_value_count,     \* selections that came back with no value
    tool_env,           \* the data-source configuration and what the file
                        \* system and the web answer to a tool
    tool_call,          \* the tool function that was called, or "none"
    tool_result,        \* what the tool function returned
    max_turns,          \* the run's ceiling on turns
    keyword_termination,\* whether the content-based termination rule is active
    cancel_requested,   \* the external cancellation signal has been raised
    max_retries,        \* process_thread_run: its parameter
    initial_retry_delay,\* process_thread_run: its parameter
    retry_count,        \* process_thread_run: failures counted so far
    retry_delay,        \* process_thread_run: the next backoff wait, seconds
    run,                \* process_thread_run: the run last created or polled
    run_pc,             \* process_thread_run: where the call stands
    returned,           \* process_thread_run: its return value, once returned
    create_calls,       \* calls of agents.create_run made by the call
    waits,              \* the waits before retries, in order
    indexes,            \* the search service: what each index name holds
    index_name,         \* the notebook's index_name
    delete_index_if_exists, \* the notebook's switch
    delete_outcome,     \* how the delete cell went
    index_exists,       \* the create cell's index_exists, once computed
    index_pc,           \* where the index setup stands
    create_index_calls  \* calls of index_client.create_index

chatvars == << transcript, turn_count, last_speaker, terminated,
               termination_reason, error, pc, selection_result, selected,
               no_value_count >>

toolvars == << tool_env, tool_call, tool_result >>

runvars == << max_turns, keyword_termination, cancel_requested >>

retryvars == << max_retries, initial_retry_delay, retry_count, retry_delay,
                run, run_pc, returned, create_calls, waits >>

indexvars == << indexes, index_name, delete_index_if_exists, delete_outcome,
                index_exists, index_pc, create_index_calls >>

vars == << chatvars, toolvars, runvars, retryvars, indexvars >>

\* the group chat as constructed: empty history, nothing run yet
ChatInit ==
    /\ transcript = << >>
    /\ turn_count = 0
    /\ last_speaker = None
    /\ terminated = FALSE
    /\ termination_reason = None
    /\ error = None
    /\ pc = "created"
    /\ selection_result = NoValue
    /\ selected = None
    /\ no_value_count = 0

Last(s) == s[Len(s)]

IsPrefix(s, t) == Len(s) <= Len(t) /\ SubSeq(t, 1, Len(s)) = s

(***************************************************************************)
(* Selection: the prompt of selection_function and the result parser       *)
(***************************************************************************)
\* "Choose only from these participants"
Participants ==
    { WEB_JOB_RESEARCH_AGENT_NAME, RESUME_REVIEWER_AGENT_NAME,
      RESUME_COPYWRITER_AGENT_NAME, INTERVIEW_PREPARATION_AGENT_NAME }

Contains(content, keyword) == content = keyword

\* "Abide by the following policy": the five rules, in the prompt's order
RuleIds == 1..5

RuleApplies(i, response) ==
    CASE i = 1 -> response.name = USER
      [] i = 2 -> response.name = WEB_JOB_RESEARCH_AGENT_NAME
      [] i = 3 -> response.name = RESUME_REVIEWER_AGENT_NAME
      [] i = 4 -> /\ response.name = RESUME_COPYWRITER_AGENT_NAME
                  /\ Contains(response.content, RESUME_REVIEW_COMPLETE_KEYWORD)
      [] i = 5 -> response.name = INTERVIEW_PREPARATION_AGENT_NAME

RuleAnswer(i) ==
    CASE i = 1 -> WEB_JOB_RESEARCH_AGENT_NAME
      [] i = 2 -> RESUME_REVIEWER_AGENT_NAME
      [] i = 3 -> RESUME_COPYWRITER_AGENT_NAME
      [] i = 4 -> INTERVIEW_PREPARATION_AGENT_NAME
      [] i = 5 -> PROCESS_COMPLETE

MatchingRules(response) == { i \in RuleIds : RuleApplies(i, response) }

HasSpoken(name, history) == \E k \in 1..Len(history) : history[k].name = name

\* the policy read without "only choose Web-Job-Research-Agent one time"
PolicyAnswersWebAgain(history) ==
    LET response == Last(history)
        rules == MatchingRules(response)
    IN  IF rules # {}
        THEN { RuleAnswer(i) : i \in rules }
        ELSE { p \in Participants : p # response.name }

\* the policy read with the keyword rule left out: authorship alone decides
PolicyAnswersKeywordIgnored(history) ==
    LET response == Last(history)
        rules == MatchingRules(response) \ {4}
    IN  IF rules # {}
        THEN { RuleAnswer(i) : i \in rules }
        ELSE { p \in Participants :
                 /\ p # response.name
                 /\ ~ (p = WEB_JOB_RESEARCH_AGENT_NAME
                        /\ HasSpoken(WEB_JOB_RESEARCH_AGENT_NAME, history)) }

\* The answers the prompt allows for a history.  Where a rule applies, its
\* answer; where none does, any listed participant the two general
\* instructions leave: not the one named in the RESPONSE, and not
\* Web-Job-Research-Agent a second time.
PolicyAnswers(history) ==
    LET response == Last(history)
        rules == MatchingRules(response)
    IN  IF rules # {}
        THEN { RuleAnswer(i) : i \in rules }
        ELSE { p \in Participants :
                 /\ p # response.name
                 /\ ~ (p = WEB_JOB_RESEARCH_AGENT_NAME
                        /\ HasSpoken(WEB_JOB_RESEARCH_AGENT_NAME, history)) }

\* What the text-generation service may answer to the selection prompt: an
\* answer the policy allows, or the "COMPLETE" indication.
SelectionAnswers(history) == PolicyAnswers(history) \cup {PROCESS_COMPLETE}

\* result_parser=lambda result: str(result.value[0])
\*     if result.value is not None else RESUME_REVIEWER_AGENT_NAME
result_parser_default_for_unknown(value) ==
    IF value # NoValue /\ value[1] \in AgentNames
    THEN value[1]
    ELSE RESUME_REVIEWER_AGENT_NAME

\* the parser with the first agent as its default
result_parser_default_first_agent(value) ==
    IF value # NoValue THEN value[1] ELSE WEB_JOB_RESEARCH_AGENT_NAME

result_parser(value) ==
    IF value # NoValue THEN value[1] ELSE RESUME_REVIEWER_AGENT_NAME

(***************************************************************************)
(* Termination: CompletionTerminationStrategy                              *)
(***************************************************************************)
\* the variant that also stops on a keyword in the last message
should_agent_terminate_on_keyword(agent, history) ==
    IF history = << >>
    THEN None
    ELSE \/ agent = final_agent
         \/ Contains(Last(history).content, RESUME_REVIEW_COMPLETE_KEYWORD)

\* the variant that never asks for termination
should_agent_terminate_never(agent, history) ==
    IF history = << >>
    THEN None
    ELSE FALSE

\* logging...debug(history[-1]) raises IndexError on an empty history (None
\* here); otherwise the result is agent.name == final_agent.name
should_agent_terminate(agent, history) ==
    IF history = << >>
    THEN None
    ELSE agent = final_agent

\* the policy with the name-based rule alone
should_terminate_by_name_only(speaker, history) ==
    should_agent_terminate(speaker, history)

\* The termination policy of a run: where the content-based rule is active,
\* the termination keyword in the last message wins; otherwise, and in the
\* notebook always, the strategy's answer by name.
should_terminate(speaker, history) ==
    IF keyword_termination /\ history # << >>
          /\ Contains(Last(history).content, TERMINATION_KEYWORD)
    THEN TRUE
    ELSE should_agent_terminate(speaker, history)

\* what an agent's message can hold: the termination keyword only in a run
\* whose agents are told to use it
SpeakableContents ==
    IF keyword_termination THEN Contents \cup {TERMINATION_KEYWORD} ELSE Contents

(***************************************************************************)
(* The tool functions of the agents                                        *)
(***************************************************************************)
\* Python values a tool can return: a str (where it comes from and how long
\* it is) or None
Str(origin, len) == [kind |-> "str", origin |-> origin, len |-> len]

NoneValue == [kind |-> "None"]

Unset == [kind |-> "unset"]

\* what opening and reading a file, or fetching and parsing a page, comes to:
\* text of some length, or an exception (len is then the length of str(e))
Ok(len) == [ok |-> TRUE, len |-> len]

Raises(len) == [ok |-> FALSE, len |-> len]

\* content[:JOB_POSTING_MAX_LENGTH] when len(content) > JOB_POSTING_MAX_LENGTH
Truncate(len) == IF len > JOB_POSTING_MAX_LENGTH THEN JOB_POSTING_MAX_LENGTH ELSE len

\* f"Job posting from: {url}\n\n{text}" with JOB_POSTING_URL as the url
JobPostingHeaderLength == 18 + 65 + 2

\* RESUME_PATH and RESUME_PATH.strip()
BlankPaths == {"", "   "}

Truthy(path) == path \notin BlankPaths

\* the web branch of fetch_job_posting: try ... return text / except: return
fetch_from_web(env) ==
    IF env.web.ok
    THEN Str("web", Truncate(JobPostingHeaderLength + env.web.len))
    ELSE NoneValue

\* WebJobResearchAgentPlugin.fetch_job_posting
fetch_job_posting(env) ==
    IF env.USE_MOCK_JOB_POSTING /\ env.mock_file.ok
    THEN Str("mock", Truncate(env.mock_file.len))
    ELSE fetch_from_web(env)

\* ResumeReviewerAgentPlugin.load_resume
load_resume(env) ==
    IF Truthy(env.RESUME_PATH)
    THEN IF env.resume_file.ok
         THEN Str("resume", env.resume_file.len)
         ELSE Str("Error loading resume", 22 + env.resume_file.len)
    ELSE NoneValue

\* the configuration of the data-sources cell
SourceConfiguration ==
    [ USE_MOCK_JOB_POSTING |-> TRUE,
      RESUME_PATH |-> "09_5_mock_resume.txt",
      mock_file |-> Ok(7553),
      web |-> Raises(0),
      resume_file |-> Ok(100) ]

FileOutcomes ==
    { Raises(38), Ok(0), Ok(100), Ok(JOB_POSTING_MAX_LENGTH),
      Ok(JOB_POSTING_MAX_LENGTH + 1) }

WebOutcomes ==
    { Raises(0), Ok(0), Ok(100),
      Ok(JOB_POSTING_MAX_LENGTH - JobPostingHeaderLength),
      Ok(JOB_POSTING_MAX_LENGTH) }

ToolEnvs ==
    [ USE_MOCK_JOB_POSTING : BOOLEAN,
      RESUME_PATH : BlankPaths \cup {"09_5_mock_resume.txt"},
      mock_file : FileOutcomes,
      web : WebOutcomes,
      resume_file : { Raises(38), Ok(0), Ok(100) } ]

(***************************************************************************)
(* process_thread_run of the personal-learning-coach notebook              *)
(***************************************************************************)
\* def process_thread_run(thread_id, agent_id, max_retries=3,
\*                        initial_retry_delay=1)
max_retries_default == 3

initial_retry_delay_default == 1

\* the largest max_retries and initial_retry_delay a call is made with
MaxRetriesArg == 3

MaxInitialDelay == 2

\* the seconds a rate-limit message can name ("Try again in N seconds")
SuggestedSeconds == {7}

\* while run.status in ["queued", "in_progress", "requires_action"]
PollingStatuses == {"queued", "in_progress", "requires_action"}

\* the statuses a run ends in
EndStatuses == {"completed", "failed", "cancelled", "expired"}

\* the message of a last_error, as far as re.search(r'Try again in (\d+)
\* seconds', ...) can tell
TryAgainIn(n) == [try_again_in |-> TRUE, seconds |-> n]

PlainMessage == [try_again_in |-> FALSE]

LastError(code, message) == [kind |-> "error", code |-> code, message |-> message]

\* what run.last_error can be: None, a rate-limit error with or without the
\* seconds to wait, or another error
LastErrors ==
    {NoneValue}
        \cup { LastError("rate_limit_exceeded", TryAgainIn(n)) : n \in SuggestedSeconds }
        \cup { LastError("rate_limit_exceeded", PlainMessage),
               LastError("server_error", PlainMessage) }

\* what the agents service can answer to create_run or get_run
ServiceAnswers ==
    { [status |-> st, last_error |-> NoneValue] :
          st \in PollingStatuses \cup (EndStatuses \ {"failed"}) }
        \cup { [status |-> "failed", last_error |-> e] : e \in LastErrors }

ThreadRun(id, answer) ==
    [kind |-> "run", id |-> id, status |-> answer.status,
     last_error |-> answer.last_error]

\* one wait before a retry: retry is the number of the retry it precedes
Wait(retry, seconds, backoff) ==
    [retry |-> retry, seconds |-> seconds, backoff |-> backoff]

outside_thread_run == << chatvars, toolvars, runvars, indexvars >>

\* the function not called
ThreadRunIdle ==
    /\ max_retries = max_retries_default
    /\ initial_retry_delay = initial_retry_delay_default
    /\ retry_count = 0
    /\ retry_delay = 0
    /\ run = Unset
    /\ run_pc = "idle"
    /\ returned = Unset
    /\ create_calls = 0
    /\ waits = << >>

\* a call about to be made, with any arguments
InitThreadRun ==
    /\ max_retries \in 0..MaxRetriesArg
    /\ initial_retry_delay \in 1..MaxInitialDelay
    /\ retry_count = 0
    /\ retry_delay = 0
    /\ run = Unset
    /\ run_pc = "idle"
    /\ returned = Unset
    /\ create_calls = 0
    /\ waits = << >>

\* retry_count = 0; retry_delay = initial_retry_delay
EnterProcessThreadRun ==
    /\ run_pc = "idle"
    /\ retry_count' = 0
    /\ retry_delay' = initial_retry_delay
    /\ run_pc' = "while"
    /\ UNCHANGED << outside_thread_run, max_retries, initial_retry_delay, run,
                    returned, create_calls, waits >>

Return(value) ==
    /\ returned' = value
    /\ run_pc' = "returned"

\* while retry_count <= max_retries: ... ; after the loop, return None
WhileRetryCountAllows ==
    /\ run_pc = "while"
    /\ IF retry_count <= max_retries
       THEN run_pc' = "create_run" /\ UNCHANGED returned
       ELSE Return(NoneValue)
    /\ UNCHANGED << outside_thread_run, max_retries, initial_retry_delay,
                    retry_count, retry_delay, run, create_calls, waits >>

\* run = project_client.agents.create_run(...)
CreateRunReturns ==
    /\ run_pc = "create_run"
    /\ create_calls' = create_calls + 1
    /\ \E answer \in ServiceAnswers : run' = ThreadRun(create_calls + 1, answer)
    /\ run_pc' = "poll"
    /\ UNCHANGED << outside_thread_run, max_retries, initial_retry_delay,
                    retry_count, retry_delay, returned, waits >>

\* ... or the call raises
CreateRunRaises ==
    /\ run_pc = "create_run"
    /\ create_calls' = create_calls + 1
    /\ run_pc' = "except"
    /\ UNCHANGED << outside_thread_run, max_retries, initial_retry_delay,
                    retry_count, retry_delay, run, returned, waits >>

\* while run.status in ["queued", "in_progress", "requires_action"]
PollStatus ==
    /\ run_pc = "poll"
    /\ run_pc' = IF run.status \in PollingStatuses THEN "get_run" ELSE "polled"
    /\ UNCHANGED << outside_thread_run, max_retries, initial_retry_delay,
                    retry_count, retry_delay, run, returned, create_calls,
                    waits >>

\* time.sleep(1); run = project_client.agents.get_run(..., run_id=run.id)
GetRunReturns ==
    /\ run_pc = "get_run"
    /\ \E answer \in ServiceAnswers : run' = ThreadRun(run.id, answer)
    /\ run_pc' = "poll"
    /\ UNCHANGED << outside_thread_run, max_retries, initial_retry_delay,
                    retry_count, retry_delay, returned, create_calls, waits >>

\* ... or the call raises
GetRunRaises ==
    /\ run_pc = "get_run"
    /\ run_pc' = "except"
    /\ UNCHANGED << outside_thread_run, max_retries, initial_retry_delay,
                    retry_count, retry_delay, run, returned, create_calls,
                    waits >>

\* run.status == "failed" and hasattr(run, "last_error")
\*     and run.last_error.get("code") == "rate_limit_exceeded"
\* (reached only for a failed run whose last_error is not None)
IsRateLimited(r) ==
    /\ r.status = "failed"
    /\ r.last_error.code = "rate_limit_exceeded"

\* the last statements with only a failed run turned into None
ResultOfNotFailed(r) == IF r.status = "failed" THEN NoneValue ELSE r

\* if run.status != "completed": ... return None;  otherwise return run
ResultOf(r) == IF r.status # "completed" THEN NoneValue ELSE r

\* the statements after the polling loop: the rate-limit branch with its
\* wait and retry, the branch of any other status that is not "completed",
\* and the successful return.  None.get(...) raises for a failed run
\* without last_error.
AfterPolling ==
    /\ run_pc = "polled"
    /\ IF run.status = "failed" /\ run.last_error = NoneValue
       THEN /\ run_pc' = "except"
            /\ UNCHANGED << retry_count, retry_delay, returned, waits >>
       ELSE IF IsRateLimited(run)
       THEN LET message == run.last_error.message
                wait_seconds == IF message.try_again_in
                                THEN message.seconds
                                ELSE retry_delay
            IN  /\ retry_delay' = IF message.try_again_in
                                  THEN retry_delay
                                  ELSE retry_delay * 2
                /\ retry_count' = retry_count + 1
                /\ IF retry_count + 1 <= max_retries
                   THEN /\ waits' = Append(waits,
                                       Wait(retry_count + 1, wait_seconds,
                                            ~ message.try_again_in))
                        /\ run_pc' = "while"
                        /\ UNCHANGED returned
                   ELSE /\ Return(NoneValue)
                        /\ UNCHANGED waits
       ELSE /\ Return(ResultOf(run))
            /\ UNCHANGED << retry_count, retry_delay, waits >>
    /\ UNCHANGED << outside_thread_run, max_retries, initial_retry_delay, run,
                    create_calls >>

\* the handler with the failure not counted
HandleExceptionNotCounted ==
    /\ run_pc = "except"
    /\ waits' = Append(waits, Wait(retry_count + 1, retry_delay, TRUE))
    /\ retry_delay' = retry_delay * 2
    /\ run_pc' = "while"
    /\ UNCHANGED << outside_thread_run, max_retries, initial_retry_delay,
                    retry_count, run, returned, create_calls >>

\* the handler with the delay doubled before the wait
HandleExceptionDoublesFirst ==
    /\ run_pc = "except"
    /\ retry_count' = retry_count + 1
    /\ IF retry_count + 1 <= max_retries
       THEN /\ waits' = Append(waits, Wait(retry_count + 1, retry_delay * 2, TRUE))
            /\ retry_delay' = retry_delay * 2
            /\ run_pc' = "while"
            /\ UNCHANGED returned
       ELSE /\ Return(NoneValue)
            /\ UNCHANGED << waits, retry_delay >>
    /\ UNCHANGED << outside_thread_run, max_retries, initial_retry_delay, run,
                    create_calls >>

\* except Exception as e: count the failure, then wait retry_delay and
\* double it, or return None when the retries are used up
HandleException ==
    /\ run_pc = "except"
    /\ retry_count' = retry_count + 1
    /\ IF retry_count + 1 <= max_retries
       THEN /\ waits' = Append(waits, Wait(retry_count + 1, retry_delay, TRUE))
            /\ retry_delay' = retry_delay * 2
            /\ run_pc' = "while"
            /\ UNCHANGED returned
       ELSE /\ Return(NoneValue)
            /\ UNCHANGED << waits, retry_delay >>
    /\ UNCHANGED << outside_thread_run, max_retries, initial_retry_delay, run,
                    create_calls >>

(***************************************************************************)
(* Index setup of the AI Search notebooks: the delete cell and the create  *)
(* cell                                                                    *)
(***************************************************************************)
\* index_name = "customer" (project_based_ai_search), "space-facts"
\* (basic_rag)
NotebookIndexNames == {"customer", "space-facts"}

\* the names an index of the search service can have: the notebooks' and
\* one of somebody else's
ServiceIndexNames == NotebookIndexNames \cup {"products"}

\* what the service holds under a name: nothing, an index that was there
\* before the notebook ran, or the index with the schema the create cell
\* defines
IndexStates == {"absent", "earlier", "notebook_schema"}

\* [index.name for index in index_client.list_indexes()]
list_indexes == { n \in ServiceIndexNames : indexes[n] # "absent" }

outside_index_setup == << chatvars, toolvars, runvars, retryvars >>

\* no cell of an index notebook run
IndexSetupIdle ==
    /\ indexes = [n \in ServiceIndexNames |-> "absent"]
    /\ index_name = "customer"
    /\ delete_index_if_exists = TRUE
    /\ delete_outcome = "not_run"
    /\ index_exists = Unset
    /\ index_pc = "idle"
    /\ create_index_calls = 0

\* a notebook about to run its delete cell, on a service in any state
InitIndexSetup ==
    /\ indexes \in [ServiceIndexNames -> IndexStates \ {"notebook_schema"}]
    /\ index_name \in NotebookIndexNames
    /\ delete_index_if_exists \in BOOLEAN
    /\ delete_outcome = "not_run"
    /\ index_exists = Unset
    /\ index_pc = "delete_cell"
    /\ create_index_calls = 0

\* if delete_index_if_exists: ... is skipped
DeleteSkipped ==
    /\ index_pc = "delete_cell"
    /\ ~ delete_index_if_exists
    /\ delete_outcome' = "skipped"
    /\ index_pc' = "create_cell"
    /\ UNCHANGED << outside_index_setup, indexes, index_name,
                    delete_index_if_exists, index_exists, create_index_calls >>

\* index_client.delete_index(index_name) returns: the name holds nothing
\* afterwards
DeleteIndexReturns ==
    /\ index_pc = "delete_cell"
    /\ delete_index_if_exists
    /\ indexes' = [indexes EXCEPT ![index_name] = "absent"]
    /\ delete_outcome' = "deleted"
    /\ index_pc' = "create_cell"
    /\ UNCHANGED << outside_index_setup, index_name, delete_index_if_exists,
                    index_exists, create_index_calls >>

\* ... or raises, and the handler prints and goes on: the service is as it
\* was
DeleteIndexRaises ==
    /\ index_pc = "delete_cell"
    /\ delete_index_if_exists
    /\ delete_outcome' = "raised"
    /\ index_pc' = "create_cell"
    /\ UNCHANGED << outside_index_setup, indexes, index_name,
                    delete_index_if_exists, index_exists, create_index_calls >>

\* the check left out: the index is created in any case
CheckIndexExistsSkipped ==
    /\ index_pc = "create_cell"
    /\ index_exists' = FALSE
    /\ index_pc' = "create_index"
    /\ UNCHANGED << outside_index_setup, indexes, index_name,
                    delete_index_if_exists, delete_outcome, create_index_calls >>

\* index_exists = index_name in [index.name for index in
\* index_client.list_indexes()];  if index_exists: print, else: create
CheckIndexExists ==
    /\ index_pc = "create_cell"
    /\ index_exists' = (index_name \in list_indexes)
    /\ index_pc' = IF index_name \in list_indexes THEN "done" ELSE "create_index"
    /\ UNCHANGED << outside_index_setup, indexes, index_name,
                    delete_index_if_exists, delete_outcome, create_index_calls >>

\* ... or list_indexes raises: nothing catches it, the cell fails
ListIndexesRaises ==
    /\ index_pc = "create_cell"
    /\ index_pc' = "failed"
    /\ UNCHANGED << outside_index_setup, indexes, index_name,
                    delete_index_if_exists, delete_outcome, index_exists,
                    create_index_calls >>

\* result = index_client.create_index(index) returns: the name holds the
\* index with the schema of the cell
CreateIndexReturns ==
    /\ index_pc = "create_index"
    /\ create_index_calls' = create_index_calls + 1
    /\ indexes' = [indexes EXCEPT ![index_name] = "notebook_schema"]
    /\ index_pc' = "done"
    /\ UNCHANGED << outside_index_setup, index_name, delete_index_if_exists,
                    delete_outcome, index_exists >>

\* ... or raises: nothing catches it, the cell fails
CreateIndexRaises ==
    /\ index_pc = "create_index"
    /\ create_index_calls' = create_index_calls + 1
    /\ index_pc' = "failed"
    /\ UNCHANGED << outside_index_setup, indexes, index_name,
                    delete_index_if_exists, delete_outcome, index_exists >>

\* the run as the notebook configures it: the cap of the termination
\* strategy, termination by the final agent's name only, no cancellation
RunInit ==
    /\ max_turns = maximum_iterations
    /\ keyword_termination = FALSE
    /\ cancel_requested = FALSE

\* every configuration and every answer of the file system and the web
InitTools ==
    /\ ChatInit
    /\ RunInit
    /\ ThreadRunIdle
    /\ IndexSetupIdle
    /\ tool_env \in ToolEnvs
    /\ tool_call = "none"
    /\ tool_result = Unset

CallFetchJobPosting ==
    /\ tool_call = "none"
    /\ tool_call' = "fetch_job_posting"
    /\ tool_result' = fetch_job_posting(tool_env)
    /\ UNCHANGED << chatvars, tool_env, runvars, retryvars, indexvars >>

CallLoadResume ==
    /\ tool_call = "none"
    /\ tool_call' = "load_resume"
    /\ tool_result' = load_resume(tool_env)
    /\ UNCHANGED << chatvars, tool_env, runvars, retryvars, indexvars >>

NextTools ==
    \/ CallFetchJobPosting
    \/ CallLoadResume

SpecTools == InitTools /\ [][NextTools]_vars

(***************************************************************************)
(* The chat-execution cell and the turn loop                               *)
(***************************************************************************)
ToolsIdle ==
    /\ tool_env = SourceConfiguration
    /\ tool_call = "none"
    /\ tool_result = Unset

Init ==
    /\ ChatInit
    /\ RunInit
    /\ ToolsIdle
    /\ ThreadRunIdle
    /\ IndexSetupIdle

\* await agent_group_chat.add_chat_messages(chat_history)
AddChatMessages ==
    /\ UNCHANGED << toolvars, runvars, retryvars, indexvars >>
    /\ pc = "created"
    /\ transcript' = transcript \o chat_history
    /\ pc' = "added"
    /\ UNCHANGED << turn_count, last_speaker, terminated, termination_reason,
                    error, selection_result, selected, no_value_count >>

\* the cell called a second time on a chat that has already run
InvokeAgain ==
    /\ UNCHANGED << toolvars, runvars, retryvars, indexvars >>
    /\ pc \in {"added", "done"}
    /\ pc' = "top"
    /\ UNCHANGED << transcript, turn_count, last_speaker, terminated,
                    termination_reason, error, selection_result, selected,
                    no_value_count >>

\* async for _ in agent_group_chat.invoke(): pass  -- entered once
Invoke ==
    /\ UNCHANGED << toolvars, runvars, retryvars, indexvars >>
    /\ pc = "added"
    /\ pc' = "top"
    /\ UNCHANGED << transcript, turn_count, last_speaker, terminated,
                    termination_reason, error, selection_result, selected,
                    no_value_count >>

Stop(reason) ==
    /\ terminated' = TRUE
    /\ termination_reason' = reason
    /\ pc' = "done"

\* the check between turns without a look at the cancellation signal
CheckCapIgnoringCancel ==
    /\ UNCHANGED << toolvars, runvars, retryvars, indexvars >>
    /\ pc = "top"
    /\ IF turn_count >= max_turns
       THEN Stop("max_iterations")
       ELSE /\ pc' = "select"
            /\ UNCHANGED << terminated, termination_reason >>
    /\ UNCHANGED << transcript, turn_count, last_speaker, error,
                    selection_result, selected, no_value_count >>

\* between turns: the cancellation signal, then step (a), the iteration cap
CheckCap ==
    /\ UNCHANGED << toolvars, runvars, retryvars, indexvars >>
    /\ pc = "top"
    /\ IF cancel_requested
       THEN Stop("explicit_signal")
       ELSE IF turn_count >= max_turns
            THEN Stop("max_iterations")
            ELSE /\ pc' = "select"
                 /\ UNCHANGED << terminated, termination_reason >>
    /\ UNCHANGED << transcript, turn_count, last_speaker, error,
                    selection_result, selected, no_value_count >>

\* step (b), first half: the selection function is invoked on the history
\* and its result holds a value
SelectionReturnsValue ==
    /\ UNCHANGED << toolvars, runvars, retryvars, indexvars >>
    /\ pc = "select"
    /\ UNCHANGED << transcript, turn_count, last_speaker, terminated,
                    termination_reason, error, selected, no_value_count >>
    /\ \E answer \in SelectionAnswers(transcript) :
          selection_result' = << answer >>
    /\ pc' = "parse"

\* ... or its result holds no value
SelectionReturnsNoValue ==
    /\ UNCHANGED << toolvars, runvars, retryvars, indexvars >>
    /\ pc = "select"
    /\ no_value_count < MaxNoValue
    /\ no_value_count' = no_value_count + 1
    /\ selection_result' = NoValue
    /\ pc' = "parse"
    /\ UNCHANGED << transcript, turn_count, last_speaker, terminated,
                    termination_reason, error, selected >>

\* steps (b), second half, and (c): the parsed name is looked up in the
\* roster; a name that is no agent's is "no eligible speaker"
ResolveSelection ==
    /\ UNCHANGED << toolvars, runvars, retryvars, indexvars >>
    /\ pc = "parse"
    /\ LET name == result_parser(selection_result)
       IN  IF name \in AgentNames
           THEN /\ selected' = name
                /\ pc' = "generate"
                /\ UNCHANGED << terminated, termination_reason >>
           ELSE /\ Stop("policy_selected_none")
                /\ UNCHANGED selected
    /\ UNCHANGED << transcript, turn_count, last_speaker, error,
                    selection_result, no_value_count >>

\* step (d) with the turn counter left alone
GenerateMessageNoCount ==
    /\ UNCHANGED << toolvars, runvars, retryvars, indexvars >>
    /\ pc = "generate"
    /\ \E content \in SpeakableContents :
          transcript' = Append(transcript, Message("assistant", selected, content))
    /\ last_speaker' = selected
    /\ pc' = "check"
    /\ UNCHANGED << turn_count, terminated, termination_reason, error,
                    selection_result, selected, no_value_count >>

\* step (d) with the turn counted before its message has been appended
GenerateMessageNoAppend ==
    /\ UNCHANGED << toolvars, runvars, retryvars, indexvars >>
    /\ pc = "generate"
    /\ turn_count' = turn_count + 1
    /\ last_speaker' = selected
    /\ pc' = "check"
    /\ UNCHANGED << transcript, terminated, termination_reason, error,
                    selection_result, selected, no_value_count >>

\* step (d) with the new message put first
GenerateMessagePrepend ==
    /\ UNCHANGED << toolvars, runvars, retryvars, indexvars >>
    /\ pc = "generate"
    /\ \E content \in SpeakableContents :
          transcript' = << Message("assistant", selected, content) >> \o transcript
    /\ turn_count' = turn_count + 1
    /\ last_speaker' = selected
    /\ pc' = "check"
    /\ UNCHANGED << terminated, termination_reason, error, selection_result,
                    selected, no_value_count >>

\* step (d): the chosen agent generates one message from the history; it is
\* appended, the turn is counted, the speaker remembered
GenerateMessage ==
    /\ UNCHANGED << toolvars, runvars, retryvars, indexvars >>
    /\ pc = "generate"
    /\ \E content \in SpeakableContents :
          transcript' = Append(transcript, Message("assistant", selected, content))
    /\ turn_count' = turn_count + 1
    /\ last_speaker' = selected
    /\ pc' = "check"
    /\ UNCHANGED << terminated, termination_reason, error, selection_result,
                    selected, no_value_count >>

\* the failed turn skipped: the loop goes on to the next iteration
GenerationSkipped ==
    /\ UNCHANGED << toolvars, runvars, retryvars, indexvars >>
    /\ pc = "generate"
    /\ pc' = "top"
    /\ UNCHANGED << transcript, turn_count, last_speaker, terminated,
                    termination_reason, error, selection_result, selected,
                    no_value_count >>

\* failure handling of step (d): the generation call fails or times out;
\* the run halts with the agent's name and the turn count
GenerationFails ==
    /\ UNCHANGED << toolvars, runvars, retryvars, indexvars >>
    /\ pc = "generate"
    /\ error' = [agent |-> selected, turn_count |-> turn_count]
    /\ pc' = "failed"
    /\ UNCHANGED << transcript, turn_count, last_speaker, terminated,
                    termination_reason, selection_result, selected,
                    no_value_count >>

\* step (e): the termination strategy is asked about the agent that spoke
CheckTermination ==
    /\ UNCHANGED << toolvars, runvars, retryvars, indexvars >>
    /\ pc = "check"
    /\ IF should_terminate(last_speaker, transcript) = TRUE
       THEN Stop("explicit_signal")
       ELSE /\ pc' = "top"
            /\ UNCHANGED << terminated, termination_reason >>
    /\ UNCHANGED << transcript, turn_count, last_speaker, error,
                    selection_result, selected, no_value_count >>

Next ==
    \/ AddChatMessages
    \/ Invoke
    \/ CheckCap
    \/ SelectionReturnsValue
    \/ SelectionReturnsNoValue
    \/ ResolveSelection
    \/ GenerateMessage
    \/ GenerationFails
    \/ CheckTermination

Spec == Init /\ [][Next]_vars

(***************************************************************************)
(* Properties of the conversation loop                                     *)
(***************************************************************************)
AgentMessages(history) == { k \in 1..Len(history) : history[k].role = "assistant" }

\* C1: a run with max_turns = MAXIMUM_CHAT_ITERATIONS executes at most that
\* many agent turns, whatever the selection answers and even if the
\* termination strategy never says stop.
C1_AtMostMaxTurns ==
    /\ turn_count <= MAXIMUM_CHAT_ITERATIONS
    /\ Cardinality(AgentMessages(transcript)) <= MAXIMUM_CHAT_ITERATIONS

\* a run that the cap stopped, after the full number of turns and without
\* the final agent ever speaking
C1_Witness ==
    /\ terminated
    /\ termination_reason = "max_iterations"
    /\ turn_count = MAXIMUM_CHAT_ITERATIONS
    /\ ~ HasSpoken(final_agent, transcript)

\* C2: the agent selected for the next turn is never the agent that spoke
\* the turn before, the parser's default name included.
C2_NeverSameSpeakerTwice ==
    /\ pc = "generate" => selected # last_speaker
    /\ \A k \in 1..(Len(transcript) - 1) :
          transcript[k].name # transcript[k + 1].name

\* C3: once terminated, no further selection, generation or append: the
\* run's state stays as it is.
C3_NoTurnAfterTermination ==
    [][ terminated =>
          /\ terminated'
          /\ transcript' = transcript
          /\ turn_count' = turn_count
          /\ selected' = selected
          /\ selection_result' = selection_result ]_vars

\* a run that has terminated short of the cap, so that a further turn would
\* have been possible
C3_Witness ==
    /\ terminated
    /\ termination_reason = "explicit_signal"
    /\ turn_count < MAXIMUM_CHAT_ITERATIONS

\* C4: turn_count starts at 0, grows by exactly 1 with each appended agent
\* message and not otherwise, and always equals the number of messages
\* appended since the run's initial transcript.
C4_TurnCountMatchesAppends ==
    /\ [] ( /\ (pc = "created" => turn_count = 0)
            /\ (pc # "created" =>
                  Len(transcript) = Len(chat_history) + turn_count) )
    /\ [][ \/ turn_count' = turn_count
           \/ /\ turn_count' = turn_count + 1
              /\ Len(transcript') = Len(transcript) + 1 ]_vars

C4_Witness ==
    /\ pc = "done"
    /\ turn_count = 4
    /\ Len(transcript) = 5

\* C5: every step leaves the transcript as it was or extends it at the end;
\* only the cell's add_chat_messages and the loop's turn write to it.
C5_AppendOnly ==
    [][ /\ IsPrefix(transcript, transcript')
        /\ (transcript' # transcript => pc \in {"created", "generate"}) ]_vars

C5_Witness ==
    /\ Len(transcript) = 4
    /\ transcript[1].name = USER
    /\ transcript[4].name = RESUME_COPYWRITER_AGENT_NAME

WithLastContent(history, content) ==
    [history EXCEPT ![Len(history)].content = content]

\* C6: on every history of a run and for every agent, the termination
\* strategy answers true exactly for the final agent, whatever the last
\* message says.
C6_TerminateIffFinalAgent ==
    transcript # << >> =>
        \A a \in AgentNames : \A c \in Contents :
            should_agent_terminate(a, WithLastContent(transcript, c))
                = (a = INTERVIEW_PREPARATION_AGENT_NAME)

\* the strategy was asked about a message holding a keyword, by an agent
\* that is not the final one, and the run went on
C6_Witness ==
    /\ pc = "top"
    /\ ~ terminated
    /\ last_speaker = RESUME_REVIEWER_AGENT_NAME
    /\ Last(transcript).content = RESUME_REVIEW_COMPLETE_KEYWORD

\* C7: a generation call that fails halts the run with an error naming the
\* agent and the turn count; nothing is appended or counted for that turn,
\* and nothing happens afterwards (no skip, no retry).
C7_FailureHaltsRun ==
    [][ /\ (pc = "generate" /\ pc' # "check") =>
              /\ pc' = "failed"
              /\ error' = [agent |-> selected, turn_count |-> turn_count]
              /\ transcript' = transcript
              /\ turn_count' = turn_count
              /\ ~ terminated'
        /\ pc # "failed" ]_vars

C7_Witness ==
    /\ pc = "failed"
    /\ error = [agent |-> RESUME_COPYWRITER_AGENT_NAME, turn_count |-> 2]
    /\ Len(transcript) = 3

\* C10: when the selection answers "COMPLETE" (no agent of the roster) while
\* the run has not terminated, the run stops with policy_selected_none, with
\* no error and no further turn.
C10_SelectedNoneStopsGracefully ==
    [][ (pc = "parse" /\ selection_result # NoValue
           /\ selection_result[1] = PROCESS_COMPLETE) =>
          /\ terminated'
          /\ termination_reason' = "policy_selected_none"
          /\ pc' = "done"
          /\ error' = None
          /\ transcript' = transcript
          /\ turn_count' = turn_count ]_vars

C10_Witness ==
    /\ terminated
    /\ termination_reason = "policy_selected_none"
    /\ error = None
    /\ last_speaker = RESUME_COPYWRITER_AGENT_NAME

(***************************************************************************)
(* Properties of the tool functions                                        *)
(***************************************************************************)
IsString(v) == v.kind = "str"

\* C8: whatever fails inside fetch_job_posting or load_resume, and whatever
\* USE_MOCK_JOB_POSTING and RESUME_PATH are, the tool returns a string
\* (never None).
C8_ToolsReturnString ==
    tool_call # "none" => IsString(tool_result)

\* C9: when fetching the posting fails, fetch_job_posting returns the local
\* copy of the posting, and when the local copy cannot be read either it
\* returns the empty string.
C9_FallsBackToLocalCopyThenEmptyString ==
    (tool_call = "fetch_job_posting" /\ ~ tool_env.web.ok) =>
        IF tool_env.mock_file.ok
        THEN tool_result = Str("mock", Truncate(tool_env.mock_file.len))
        ELSE IsString(tool_result) /\ tool_result.len = 0

(***************************************************************************)
(* Properties of the selection policy                                      *)
(***************************************************************************)
\* C11: for every message that can be the last one of a history, exactly one
\* rule of the selection prompt applies, and the rule of the final agent,
\* and only that one, answers "no further speaker".
C11_RoutingTableTotal ==
    transcript # << >> =>
        LET response == Last(transcript)
        IN  /\ Cardinality(MatchingRules(response)) = 1
            /\ \A i \in MatchingRules(response) :
                  (RuleAnswer(i) = PROCESS_COMPLETE) <=> (response.name = final_agent)

ScenarioTable(author) ==
    CASE author = USER -> WEB_JOB_RESEARCH_AGENT_NAME
      [] author = WEB_JOB_RESEARCH_AGENT_NAME -> RESUME_REVIEWER_AGENT_NAME
      [] author = RESUME_REVIEWER_AGENT_NAME -> RESUME_COPYWRITER_AGENT_NAME
      [] author = RESUME_COPYWRITER_AGENT_NAME -> INTERVIEW_PREPARATION_AGENT_NAME
      [] author = INTERVIEW_PREPARATION_AGENT_NAME -> PROCESS_COMPLETE

\* user, A, B, C, Final
ScenarioOrder ==
    << USER, WEB_JOB_RESEARCH_AGENT_NAME, RESUME_REVIEWER_AGENT_NAME,
       RESUME_COPYWRITER_AGENT_NAME, INTERVIEW_PREPARATION_AGENT_NAME >>

Authors(history) == [k \in 1..Len(history) |-> history[k].name]

InitScenario ==
    /\ ChatInit
    /\ ToolsIdle
    /\ ThreadRunIdle
    /\ IndexSetupIdle
    /\ max_turns \in 1..MaxScenarioTurns
    /\ keyword_termination \in BOOLEAN
    /\ cancel_requested = FALSE

\* step (b) with the table as the selection policy
SelectByTable ==
    /\ UNCHANGED << toolvars, runvars, retryvars, indexvars >>
    /\ pc = "select"
    /\ selection_result' = << ScenarioTable(Last(transcript).name) >>
    /\ pc' = "parse"
    /\ UNCHANGED << transcript, turn_count, last_speaker, terminated,
                    termination_reason, error, selected, no_value_count >>

Running == pc \in {"top", "select", "parse", "generate", "check"}

\* the caller raises the cancellation signal while the run is in progress
RequestCancel ==
    /\ Running
    /\ ~ cancel_requested
    /\ cancel_requested' = TRUE
    /\ UNCHANGED << chatvars, toolvars, max_turns, keyword_termination,
                    retryvars, indexvars >>

NextScenario ==
    \/ AddChatMessages
    \/ Invoke
    \/ CheckCap
    \/ SelectByTable
    \/ ResolveSelection
    \/ GenerateMessage
    \/ CheckTermination
    \/ RequestCancel

SpecScenario == InitScenario /\ [][NextScenario]_vars

\* C13: with the table user -> A -> B -> C -> Final -> none, termination by
\* "speaker is Final", one user message and max_turns of 4 or more, the
\* run makes exactly the turns A, B, C, Final and stops with
\* explicit_signal, transcript length 5 and turn_count 4.
C13_FourTurnScenario ==
    /\ IsPrefix(Authors(transcript), ScenarioOrder)
    /\ (pc = "done" /\ max_turns >= 4 /\ ~ keyword_termination
            /\ ~ cancel_requested) =>
          /\ Authors(transcript) = ScenarioOrder
          /\ termination_reason = "explicit_signal"
          /\ Len(transcript) = 5
          /\ turn_count = 4

C13_Witness ==
    /\ pc = "done"
    /\ max_turns = 5
    /\ ~ keyword_termination
    /\ ~ cancel_requested
    /\ turn_count = 4
    /\ last_speaker = INTERVIEW_PREPARATION_AGENT_NAME

\* C14: with max_turns = 2 the same run makes exactly the turns A, B and
\* stops with max_iterations and transcript length 3; any run the cap
\* stops reports max_iterations after exactly max_turns turns.
C14_CapScenario ==
    /\ (pc = "done" /\ termination_reason = "max_iterations") =>
          turn_count = max_turns
    /\ (pc = "done" /\ max_turns = 2 /\ ~ keyword_termination
            /\ ~ cancel_requested) =>
          /\ Authors(transcript) = SubSeq(ScenarioOrder, 1, 3)
          /\ termination_reason = "max_iterations"
          /\ Len(transcript) = 3
          /\ turn_count = 2

C14_Witness ==
    /\ pc = "done"
    /\ max_turns = 2
    /\ ~ keyword_termination
    /\ ~ cancel_requested
    /\ termination_reason = "max_iterations"
    /\ last_speaker = RESUME_REVIEWER_AGENT_NAME

C16_CancellationBetweenTurns ==
    [][ /\ (~ cancel_requested /\ cancel_requested') =>
              (pc' = pc /\ transcript' = transcript /\ terminated' = terminated)
        /\ (pc = "generate" /\ cancel_requested /\ pc' # pc) =>
              (pc' = "check" /\ Len(transcript') = Len(transcript) + 1)
        /\ (pc = "top" /\ cancel_requested) =>
              /\ terminated'
              /\ termination_reason' = "explicit_signal"
              /\ pc' = "done"
              /\ transcript' = transcript
              /\ turn_count' = turn_count
        /\ (pc = "top" /\ pc' = "select") => ~ cancel_requested
        /\ pc = "done" => pc' = "done" ]_vars

\* a run of five possible turns that the signal stopped after B's turn
C16_Witness ==
    /\ terminated
    /\ cancel_requested
    /\ termination_reason = "explicit_signal"
    /\ ~ keyword_termination
    /\ max_turns = 5
    /\ turn_count = 2
    /\ last_speaker = RESUME_REVIEWER_AGENT_NAME

(***************************************************************************)
(* Order of the loop's steps                                               *)
(***************************************************************************)
\* the loop is selecting for, or generating, the next turn
TurnInProgress == pc \in {"select", "parse", "generate"}

\* C17: turns are strictly sequential. While the next turn is being
\* selected or generated, the transcript already ends with the message of
\* the turn before and holds one agent message per counted turn; a
\* selection starts only from the check between turns, a generation only
\* from a resolved selection, and the one generation in flight ends in
\* exactly one appended message (or in the failure) before anything else
\* happens.
C17_StrictlySequential ==
    /\ [] ( TurnInProgress =>
              /\ Cardinality(AgentMessages(transcript)) = turn_count
              /\ Len(transcript) = Len(chat_history) + turn_count
              /\ (turn_count > 0 =>
                    /\ Last(transcript).role = "assistant"
                    /\ Last(transcript).name = last_speaker) )
    /\ [][ /\ (pc' = "select" /\ pc # "select") => pc = "top"
           /\ (pc' = "generate" /\ pc # "generate") => pc = "parse"
           /\ (pc = "generate" /\ pc' # "generate") =>
                 \/ pc' = "failed" /\ transcript' = transcript
                 \/ /\ pc' = "check"
                    /\ Len(transcript') = Len(transcript) + 1
                    /\ Last(transcript').name = selected ]_vars

\* the third turn is being generated on a transcript that holds the user
\* message and the two turns before
C17_Witness ==
    /\ pc = "generate"
    /\ turn_count = 2
    /\ Len(transcript) = 3
    /\ selected = RESUME_COPYWRITER_AGENT_NAME
    /\ Last(transcript).name = RESUME_REVIEWER_AGENT_NAME

(***************************************************************************)
(* Runs whose calls all return                                             *)
(***************************************************************************)
\* the loop's steps when every generation call returns a message
NextLive ==
    \/ AddChatMessages
    \/ Invoke
    \/ CheckCap
    \/ SelectionReturnsValue
    \/ SelectionReturnsNoValue
    \/ ResolveSelection
    \/ GenerateMessage
    \/ CheckTermination

\* the cell runs to its end: a step that can be taken is taken (every step
\* of the loop moves pc)
LiveSpec == Init /\ [][NextLive]_vars /\ WF_pc(NextLive)

TerminationReasons == {"max_iterations", "explicit_signal", "policy_selected_none"}

\* C18: when every generation call and every selection returns, the run
\* reaches terminated = TRUE with one of the three reasons and stays
\* stopped with that reason.
C18_EventuallyTerminates ==
    /\ <>[] ( /\ terminated
              /\ pc = "done"
              /\ termination_reason \in TerminationReasons )
    /\ [][ terminated => termination_reason' = termination_reason ]_vars

C18_Witness ==
    /\ terminated
    /\ pc = "done"
    /\ termination_reason = "policy_selected_none"
    /\ turn_count = 3

\* C20: the reason follows the order of the checks. A run whose final
\* agent spoke on turn number max_turns has stopped with explicit_signal;
\* the check after a turn stops with explicit_signal whenever the policy
\* says stop, however many turns were made; max_iterations is set only by
\* the check at the top of an iteration, with turn_count >= max_turns, and
\* then the turn before did not make the policy say stop.
C20_ReasonFollowsCheckOrder ==
    /\ [] ( (terminated /\ last_speaker = final_agent /\ turn_count = max_turns) =>
              termination_reason = "explicit_signal" )
    /\ [] ( termination_reason = "max_iterations" =>
              /\ turn_count >= max_turns
              /\ should_terminate(last_speaker, transcript) = FALSE )
    /\ [][ /\ (pc = "check" /\ pc' # "check"
                 /\ should_terminate(last_speaker, transcript) = TRUE) =>
                 termination_reason' = "explicit_signal"
           /\ (termination_reason' = "max_iterations"
                 /\ termination_reason # "max_iterations") =>
                 (pc = "top" /\ turn_count >= max_turns) ]_vars

\* the final agent spoke on the last turn the cap allows
C20_Witness ==
    /\ terminated
    /\ last_speaker = final_agent
    /\ turn_count = MAXIMUM_CHAT_ITERATIONS
    /\ max_turns = MAXIMUM_CHAT_ITERATIONS
    /\ termination_reason = "explicit_signal"

(***************************************************************************)
(* Properties of the job-application routing                               *)
(***************************************************************************)
\* the message is by the copywriter and holds the review-complete keyword
CopywriterSaysComplete(message) ==
    /\ message.name = RESUME_COPYWRITER_AGENT_NAME
    /\ Contains(message.content, RESUME_REVIEW_COMPLETE_KEYWORD)

\* C21: after a Resume-Copywriter-Agent message that holds
\* RESUME_REVIEW_COMPLETE the keyword rule decides: the policy's only answer
\* is Interview-Preparation-Agent, although the instructions by authorship
\* alone would also allow the reviewer, and an agent named by the selection
\* for that turn is Interview-Preparation-Agent.
C21_KeywordRuleDecides ==
    (transcript # << >> /\ CopywriterSaysComplete(Last(transcript))) =>
        /\ PolicyAnswers(transcript) = {INTERVIEW_PREPARATION_AGENT_NAME}
        /\ (pc = "generate" /\ selection_result # NoValue) =>
              selected = INTERVIEW_PREPARATION_AGENT_NAME

C21_Witness ==
    /\ pc = "generate"
    /\ CopywriterSaysComplete(Last(transcript))
    /\ selection_result # NoValue
    /\ selected = INTERVIEW_PREPARATION_AGENT_NAME

\* the positions of an agent's messages in a history
TurnsOf(name, history) == { k \in 1..Len(history) : history[k].name = name }

\* C22 as stated: Web-Job-Research-Agent takes at most one turn, and that
\* turn answers the user message.
C22_WebOnlyAfterUser ==
    /\ Cardinality(TurnsOf(WEB_JOB_RESEARCH_AGENT_NAME, transcript)) <= 1
    /\ \A k \in TurnsOf(WEB_JOB_RESEARCH_AGENT_NAME, transcript) :
          k > 1 /\ transcript[k - 1].name = USER

\* C22, amended: Web-Job-Research-Agent takes at most one turn, and it is
\* never chosen for a turn once it has spoken; its turn need not answer the
\* user message.
C22_WebAtMostOnce ==
    /\ Cardinality(TurnsOf(WEB_JOB_RESEARCH_AGENT_NAME, transcript)) <= 1
    /\ (pc = "generate" /\ selected = WEB_JOB_RESEARCH_AGENT_NAME) =>
          ~ HasSpoken(WEB_JOB_RESEARCH_AGENT_NAME, transcript)

\* the reviewer opened the run (the first selection held no value) and
\* Web-Job-Research-Agent spoke later, once, after the copywriter
C22_Witness ==
    /\ TurnsOf(WEB_JOB_RESEARCH_AGENT_NAME, transcript) = {4}
    /\ transcript[3].name = RESUME_COPYWRITER_AGENT_NAME
    /\ Len(transcript) >= 7

\* the agent has a message before position k of the history
SpokeBefore(name, k, history) == \E i \in 1..(k - 1) : history[i].name = name

\* the first part of C23: every turn of Interview-Preparation-Agent comes
\* after a turn of the reviewer and a turn of the copywriter
C23_InterviewAfterReviewAndCopy ==
    \A k \in TurnsOf(INTERVIEW_PREPARATION_AGENT_NAME, transcript) :
        /\ SpokeBefore(RESUME_REVIEWER_AGENT_NAME, k, transcript)
        /\ SpokeBefore(RESUME_COPYWRITER_AGENT_NAME, k, transcript)

\* C23: Interview-Preparation-Agent takes a turn only after the reviewer
\* and the copywriter have each taken one, and the reviewer's first turn
\* comes directly after Web-Job-Research-Agent's turn.
C23_ReviewerFollowsWebResearch ==
    /\ C23_InterviewAfterReviewAndCopy
    /\ \A k \in TurnsOf(RESUME_REVIEWER_AGENT_NAME, transcript) :
          ~ SpokeBefore(RESUME_REVIEWER_AGENT_NAME, k, transcript) =>
              (k > 1 /\ transcript[k - 1].name = WEB_JOB_RESEARCH_AGENT_NAME)

\* C24: Interview-Preparation-Agent is the final participant: it takes at
\* most one turn, its message is the last of the transcript, no selection
\* is made after it, and the run stops there with explicit_signal.
C24_InterviewIsFinal ==
    /\ Cardinality(TurnsOf(INTERVIEW_PREPARATION_AGENT_NAME, transcript)) <= 1
    /\ HasSpoken(INTERVIEW_PREPARATION_AGENT_NAME, transcript) =>
          /\ Last(transcript).name = INTERVIEW_PREPARATION_AGENT_NAME
          /\ pc \in {"check", "done"}
          /\ (pc = "done" => termination_reason = "explicit_signal")

\* the run ended right after the final agent's message, short of the cap
C24_Witness ==
    /\ pc = "done"
    /\ terminated
    /\ Last(transcript).name = INTERVIEW_PREPARATION_AGENT_NAME
    /\ turn_count = 6

\* the reviewer's message at position k says that the review is complete,
\* with at least the two turns left that the way to the final agent takes
\* (the copywriter's, then Interview-Preparation-Agent's)
ReviewCompleteAt(k, history) ==
    /\ history[k].name = RESUME_REVIEWER_AGENT_NAME
    /\ Contains(history[k].content, RESUME_REVIEW_COMPLETE_KEYWORD)
    /\ (k - Len(chat_history)) + 2 <= max_turns

\* C25: a run in which the reviewer has answered RESUME_REVIEW_COMPLETE
\* while the cap still left room does not end by exhausting the cap.
C25_ReviewCompleteAvoidsCap ==
    (terminated /\ \E k \in 1..Len(transcript) : ReviewCompleteAt(k, transcript)) =>
        termination_reason # "max_iterations"

(***************************************************************************)
(* Calls of process_thread_run                                             *)
(***************************************************************************)
InitRetry ==
    /\ ChatInit
    /\ RunInit
    /\ ToolsIdle
    /\ IndexSetupIdle
    /\ InitThreadRun

NextThreadRun ==
    \/ EnterProcessThreadRun
    \/ WhileRetryCountAllows
    \/ CreateRunReturns
    \/ CreateRunRaises
    \/ PollStatus
    \/ GetRunReturns
    \/ GetRunRaises
    \/ AfterPolling
    \/ HandleException

SpecThreadRun == InitRetry /\ [][NextThreadRun]_vars

\* C26: a call makes at most max_retries retries: create_run is called at
\* most max_retries + 1 times, retry_count never exceeds max_retries + 1,
\* no more than max_retries waits precede retries, and with the retries
\* used up the call has returned None.
C26_AtMostMaxRetries ==
    /\ create_calls <= max_retries + 1
    /\ retry_count <= max_retries + 1
    /\ Len(waits) <= max_retries
    /\ retry_count > max_retries =>
          (run_pc = "returned" /\ returned = NoneValue)

\* the default number of retries used up by a mix of failures
C26_Witness ==
    /\ run_pc = "returned"
    /\ returned = NoneValue
    /\ max_retries = max_retries_default
    /\ retry_count = max_retries + 1
    /\ create_calls = max_retries + 1
    /\ Len(waits) = max_retries
    /\ \E k \in 1..Len(waits) : ~ waits[k].backoff

\* C27: the call returns a run exactly when the run it last created has
\* been seen "completed", and then that run; in every other case it
\* returns None; nothing is returned before the call ends.
C27_ReturnsRunIffCompleted ==
    IF run_pc = "returned"
    THEN /\ (returned # NoneValue) <=>
               (run.kind = "run" /\ run.status = "completed")
         /\ returned # NoneValue =>
               (returned = run /\ returned.id = create_calls)
    ELSE returned = Unset

\* a second run, created after a rate-limited first one, completed and was
\* returned
C27_Witness ==
    /\ run_pc = "returned"
    /\ returned = run
    /\ run.status = "completed"
    /\ run.id = 2
    /\ retry_count = 1

\* the backoff waits among the waits before position k
BackoffsBefore(k) == Cardinality({ j \in 1..(k - 1) : waits[j].backoff })

\* C28 as stated: the wait before the k-th retry is
\* initial_retry_delay * 2^(k-1) seconds.
C28_WaitDoublesPerRetry ==
    \A k \in 1..Len(waits) :
        /\ waits[k].retry = k
        /\ waits[k].seconds = initial_retry_delay * 2 ^ (k - 1)

\* C28, amended: the wait before the k-th retry is the number of seconds
\* the rate-limit message names, if it names one; otherwise it is
\* initial_retry_delay * 2^j, where j is the number of earlier waits that
\* took no seconds from a message.
C28_BackoffDoublesPerUse ==
    \A k \in 1..Len(waits) :
        /\ waits[k].retry = k
        /\ IF waits[k].backoff
           THEN waits[k].seconds = initial_retry_delay * 2 ^ BackoffsBefore(k)
           ELSE waits[k].seconds \in SuggestedSeconds

\* a backoff wait, a wait named by the service, and the next backoff wait
C28_Witness ==
    /\ Len(waits) = 3
    /\ initial_retry_delay = 2
    /\ waits[1] = Wait(1, 2, TRUE)
    /\ ~ waits[2].backoff
    /\ waits[3] = Wait(3, 4, TRUE)

\* the calls of the service return or raise: a step that can be taken is
\* taken (every step of the function moves run_pc)
LiveThreadRun == InitRetry /\ [][NextThreadRun]_vars /\ WF_run_pc(NextThreadRun)

\* C29: every call of process_thread_run returns.
C29_AlwaysReturns == <>(run_pc = "returned")

(***************************************************************************)
(* Runs of the index setup                                                 *)
(***************************************************************************)
InitIndex ==
    /\ ChatInit
    /\ RunInit
    /\ ToolsIdle
    /\ ThreadRunIdle
    /\ InitIndexSetup

NextIndex ==
    \/ DeleteSkipped
    \/ DeleteIndexReturns
    \/ DeleteIndexRaises
    \/ CheckIndexExists
    \/ ListIndexesRaises
    \/ CreateIndexReturns
    \/ CreateIndexRaises

SpecIndex == InitIndex /\ [][NextIndex]_vars

\* C30: create_index is called only while the service holds no index of
\* the notebook's name, and at most once; after both cells have run to
\* their end the name holds an index; if the delete was asked for and
\* returned, that index is the one with the cell's schema; the indexes of
\* other names are left as they were.
C30_CreateOnlyWhenMissing ==
    /\ [][ create_index_calls' # create_index_calls =>
             /\ indexes[index_name] = "absent"
             /\ index_exists = FALSE
             /\ create_index_calls = 0 ]_vars
    /\ [][ \A n \in ServiceIndexNames \ {index_name} : indexes'[n] = indexes[n] ]_vars
    /\ [] ( index_pc = "done" =>
              /\ indexes[index_name] # "absent"
              /\ (delete_outcome = "deleted" =>
                    indexes[index_name] = "notebook_schema") )

\* an earlier index of the name was deleted and the new one created, next
\* to somebody else's index
C30_Witness ==
    /\ index_pc = "done"
    /\ delete_outcome = "deleted"
    /\ index_exists = FALSE
    /\ create_index_calls = 1
    /\ indexes["customer"] = "notebook_schema"
    /\ indexes["products"] = "earlier"
    /\ indexes["space-facts"] = "absent"

====
